---- MODULE Spec2Model ----
(***************************************************************************)
(* Ishi, a rule-based volition classifier for Japanese (ku-nlp/ishi).      *)
(*                                                                         *)
(* The module models src/ishi/ishi.py: the module function has_volition,   *)
(* the constructor Ishi.__init__, and the decision cascade Ishi.__call__   *)
(* with its helper extract_predicate_tag.                                  *)
(*                                                                         *)
(* Strings.  The parser of TLA+ accepts ASCII strings only, so every      *)
(* Japanese literal of the source is written in romanised form:           *)
(*   chosha = 著者, dokusha = 読者, futokutei:hito = 不特定:人, kare = 彼       *)
(*   shutai = 主体, basho = 場所                       (the <SM-...> markers)  *)
(*   ishi = 意志, meirei = 命令, iraiA = 依頼Ａ, iraiB = 依頼Ｂ,                  *)
(*   hyouka:jaku = 評価:弱, hyouka:kyou = 評価:強, ninshiki-suiryou = 認識-推量  *)
(*   shieki = 使役, judou = 受動, kanou = 可能       (joined by & and | as in   *)
(*   the source: shieki&judou|shieki&kanou = 使役&受動|使役&可能)              *)
(*   dou = 動, kei = 形, han = 判                     (the <用言:...> marker)   *)
(*   keiyoushisei-meishi-setsubiji = 形容詞性名詞接尾辞                        *)
(*   keiyoushisei-jutsugo-setsubiji = 形容詞性述語接尾辞                       *)
(*   doushisei-setsubiji = 動詞性接尾辞, setsubiji = 接尾辞                    *)
(*   kanou-setsubiji = 可能接尾辞, kanou-doushi = 可能動詞,                    *)
(*   jita-doushi:ta = 自他動詞:他, jita-doushi:ji = 自他動詞:自                 *)
(*   ga = ガ (the nominative case)                                          *)
(* and a representative name x/y stands for the repname 漢字/よみ.           *)
(*                                                                         *)
(* Feature strings.  Tag.fstring is a string of <...> features that the    *)
(* code reads with four regular expressions only.  It is modelled as the   *)
(* record of what those expressions can extract: the set of <モダリティ-m>   *)
(* values, the value of the <態:v> feature ("" when absent), the value of   *)
(* the <用言:t> feature ("" when absent) and the set of <SM-s> values.       *)
(***************************************************************************)
EXTENDS Integers, Sequences, FiniteSets, TLC

VARIABLES handlers, level, ishi, callee, str_or_blist_or_tag, nominative_str_or_tag, result

vars == <<handlers, level, ishi, callee, str_or_blist_or_tag, nominative_str_or_tag, result>>

(***************************************************************************)
(* Bounds of the model.                                                    *)
(***************************************************************************)
\* the longest sentence (number of tags of a BList)
MaxTags == 2
\* the longest predicate chunk (number of morphemes of a Tag)
MaxMrphs == 3
\* the most <モダリティ-...> features one fstring carries
MaxModalities == 1
\* the most classifier instances constructed in one run of the process
MaxInstances == 2

(***************************************************************************)
(* The literal sets of Ishi.__call__.                                      *)
(***************************************************************************)
\* line 103: {'著者', '読者', '不特定:人'}
ValidNominativeStrings == {"chosha", "dokusha", "futokutei:hito"}

\* line 107: '主体'
ValidNominativeSM == "shutai"

\* line 115: {'意志', '命令', '依頼Ａ', '依頼Ｂ', '評価:弱', '評価:強'}
VolitionModalities == {"ishi", "meirei", "iraiA", "iraiB", "hyouka:jaku", "hyouka:kyou"}

\* line 123: '使役'
VolitionVoice == "shieki"

NonVolitionVoices_CausativePassiveVolitional == {"judou", "kanou", "judou|kanou"}
\* line 127: {'受動', '可能', '受動|可能', '使役&受動', '使役&受動|使役&可能'}
NonVolitionVoices == {"judou", "kanou", "judou|kanou", "shieki&judou", "shieki&judou|shieki&kanou"}

\* line 141: {'ない/ない', 'たい/たい'}
ValidAdjectivePredicateSuffixes == {"nai/nai", "tai/tai"}

\* lines 153-168: non_volition_suffixes
NonVolitionSuffixes == {"naru/naru", "kureru/kureru", "shimau/shimau", "kudasaru/kudasaru", "eru/eru", "sugiru/sugiru", "kaneru/kaneru", "agumu/agumu", "aguneru/aguneru", "sobireru/sobireru", "meku/meku", "chimau/chimau", "jimau/jimau", "yagaru/yagaru"}

\* lines 29-32: the lines of non_volition_head_repnames.txt, stripped; the
\* tests (気付く -> False, "meaning-based") show 気付く/きづく to be one of them
get_non_volition_head_repnames == <<"kiduku/kiduku">>

(***************************************************************************)
(* Values of pyknp: morphemes, arguments, case frames, tags, sentences.    *)
(***************************************************************************)
Mrph(midasi, hinsi, bunrui, repname, imis) ==
  [midasi |-> midasi, hinsi |-> hinsi, bunrui |-> bunrui, repname |-> repname, imis |-> imis]

\* Argument of a case frame: sentence id, tag index (-1: not in the parse), surface
Argument(sid, tid, midasi) == [sid |-> sid, tid |-> tid, midasi |-> midasi]

\* Tag.pas is None (present = FALSE) or holds arguments['ガ'] (absent key: <<>>)
NoPas == [present |-> FALSE, ga |-> <<>>]
Pas(ga) == [present |-> TRUE, ga |-> ga]

FString(modality, voice, yougen, SM) ==
  [modality |-> modality, voice |-> voice, yougen |-> yougen, SM |-> SM]

Tag(fstring, mrph_list, head_prime_repname, head_repname, pas) ==
  [fstring |-> fstring, mrph_list |-> mrph_list, head_prime_repname |-> head_prime_repname,
   head_repname |-> head_repname, pas |-> pas]

NoTag == Tag(FString({}, "", "", {}), <<>>, "", "", NoPas)

BList(sid, tags) == [sid |-> sid, tags |-> tags]

NoBList == BList("", <<>>)

\* the first argument of has_volition / Ishi.__call__, by its Python type; a
\* str carries the BList that KNP.parse returns for it
InputStr(blist) == [type |-> "str", blist |-> blist, tag |-> NoTag]
InputBList(blist) == [type |-> "BList", blist |-> blist, tag |-> NoTag]
InputTag(tag) == [type |-> "Tag", blist |-> NoBList, tag |-> tag]
InputOther == [type |-> "NoneType", blist |-> NoBList, tag |-> NoTag]

\* the second argument, by its Python type
NominativeNone == [type |-> "NoneType", str |-> "", tag |-> NoTag]
NominativeStr(s) == [type |-> "str", str |-> s, tag |-> NoTag]
NominativeTag(tag) == [type |-> "Tag", str |-> "", tag |-> tag]
NominativeIndexError == [type |-> "IndexError", str |-> "", tag |-> NoTag]

\* the outcome of a call: the value returned or the exception raised, and the
\* stage of the cascade that produced it (0: before the cascade)
Outcome(verdict, stage) == [verdict |-> verdict, stage |-> stage]

NoCall == Outcome("NoCall", 0)

(***************************************************************************)
(* Python helpers.                                                         *)
(***************************************************************************)
\* set(list)
set(list) == {list[i] : i \in DOMAIN list}

\* reversed(list)
reversed(list) == [i \in 1..Len(list) |-> list[Len(list) + 1 - i]]

\* `pattern in mrph.imis`: Morpheme.imis is one string, the labels separated
\* by spaces, and `in` is the substring test; a label "name:value" therefore
\* has every pattern that is a prefix "name" of it.  PatternsIn(label) is the
\* set of the three patterns of the source that are substrings of the label.
PatternsIn(label) ==
  CASE label = "kanou-setsubiji" -> {"kanou-setsubiji"}
    [] label = "kanou-doushi:nomu/nomu" -> {"kanou-doushi"}
    [] label = "jita-doushi:ta:atatameru/atatameru" -> {"jita-doushi:ta"}
    [] OTHER -> {}

InImis(pattern, imis) == \E label \in imis : pattern \in PatternsIn(label)

(***************************************************************************)
(* Ishi.extract_predicate_tag, lines 211-226.                              *)
(***************************************************************************)
\* the last tag whose fstring holds '<用言:', else the last tag
extract_predicate_tag(knp_output) ==
  LET tag_list == knp_output.tags
      marked == {i \in 1..Len(tag_list) : tag_list[i].fstring.yougen # ""}
  IN IF marked # {}
     THEN tag_list[CHOOSE i \in marked : \A j \in marked : j <= i]
     ELSE tag_list[Len(tag_list)]

(***************************************************************************)
(* Ishi.__call__, lines 91-111: the nominative of the predicate.           *)
(***************************************************************************)
\* Python truth value of the nominative argument: None and '' are false
Truthy(nominative) ==
  \/ nominative.type = "Tag"
  \/ nominative.type = "str" /\ nominative.str # ""

\* tag_list[tid] for tid < len(tag_list): a negative index counts from the
\* end, and one below -len(tag_list) raises IndexError
PyIndex(tag_list, tid) ==
  IF tid >= 0 THEN NominativeTag(tag_list[tid + 1])
  ELSE IF tid >= 0 - Len(tag_list) THEN NominativeTag(tag_list[Len(tag_list) + tid + 1])
  ELSE NominativeIndexError

\* lines 92-100: the value of nominative_str_or_tag after the case frame was read
ResolveNominative(has_blist, blist, predicate_tag, nominative) ==
  IF Truthy(nominative) THEN nominative
  ELSE IF ~predicate_tag.pas.present THEN nominative
  ELSE LET nominatives == predicate_tag.pas.ga IN
       IF nominatives = <<>> THEN nominative
       ELSE LET first == nominatives[1] IN
            IF first.tid = -1 THEN NominativeStr(first.midasi)
            ELSE IF has_blist /\ first.sid = blist.sid /\ first.tid < Len(blist.tags)
                 THEN PyIndex(blist.tags, first.tid)
                 ELSE nominative

\* lines 102-109: the nominative is known not to be a subject
NominativeIsNotSubject(nominative) ==
  \/ nominative.type = "str" /\ nominative.str \notin ValidNominativeStrings
  \/ nominative.type = "Tag" /\ ValidNominativeSM \notin nominative.tag.fstring.SM

(***************************************************************************)
(* Ishi.__call__, lines 113-129: modality and voice.                       *)
(***************************************************************************)
HasVolitionModality(predicate_tag) ==
  \E modality \in predicate_tag.fstring.modality : modality \in VolitionModalities

\* "True", "False" or "" (no decision)
VoiceVerdict(predicate_tag) ==
  LET predicate_voice == predicate_tag.fstring.voice IN
  IF predicate_voice = "" THEN ""
  ELSE IF predicate_voice = VolitionVoice THEN "True"
  ELSE IF predicate_voice \in NonVolitionVoices THEN "False"
  ELSE ""

(***************************************************************************)
(* Ishi.__call__, lines 131-171: the suffixes.                             *)
(***************************************************************************)
\* the body of the loop for one morpheme: TRUE when it returns False
MrphIsNonVolitionSuffix_NoValidSuffixes(mrph) ==
  \/ mrph.bunrui = "keiyoushisei-meishi-setsubiji"
  \/ mrph.bunrui = "keiyoushisei-jutsugo-setsubiji"
  \/ /\ mrph.bunrui = "doushisei-setsubiji"
     /\ \/ InImis("kanou-setsubiji", mrph.imis)
        \/ mrph.repname \in NonVolitionSuffixes

MrphIsNonVolitionSuffix(mrph) ==
  \/ mrph.bunrui = "keiyoushisei-meishi-setsubiji"
  \/ /\ mrph.bunrui = "keiyoushisei-jutsugo-setsubiji"
     /\ mrph.repname \notin ValidAdjectivePredicateSuffixes
  \/ /\ mrph.bunrui = "doushisei-setsubiji"
     /\ \/ InImis("kanou-setsubiji", mrph.imis)
        \/ mrph.repname \in NonVolitionSuffixes

\* a scan that gives up after the first morpheme it visits
ScanSuffixes_StopsAfterFirst(mrphs) ==
  mrphs # <<>> /\ MrphIsNonVolitionSuffix(mrphs[1])

\* the loop over the morphemes in the order given: TRUE when some iteration
\* returns False; no iteration leaves the loop in another way
RECURSIVE ScanSuffixes(_)
ScanSuffixes(mrphs) ==
  IF mrphs = <<>> THEN FALSE
  ELSE IF MrphIsNonVolitionSuffix(Head(mrphs)) THEN TRUE
  ELSE ScanSuffixes(Tail(mrphs))

(***************************************************************************)
(* Ishi.__call__, lines 173-195: type, head repname, meaning.              *)
(***************************************************************************)
HeadRepname_GeneralFirst(predicate_tag) ==
  IF predicate_tag.head_repname # "" THEN predicate_tag.head_repname
  ELSE predicate_tag.head_prime_repname

\* line 180: predicate_tag.head_prime_repname or predicate_tag.head_repname
HeadRepname(predicate_tag) ==
  IF predicate_tag.head_prime_repname # "" THEN predicate_tag.head_prime_repname
  ELSE predicate_tag.head_repname

\* the body of the second loop for one morpheme: TRUE when it returns False
MrphIsNonVolitionMeaning(mrph) ==
  \/ InImis("kanou-doushi", mrph.imis)
  \/ InImis("jita-doushi:ta", mrph.imis)

RECURSIVE ScanMeanings(_)
ScanMeanings(mrphs) ==
  IF mrphs = <<>> THEN FALSE
  ELSE IF MrphIsNonVolitionMeaning(Head(mrphs)) THEN TRUE
  ELSE ScanMeanings(Tail(mrphs))

(***************************************************************************)
(* Ishi.__call__, lines 91-195: the cascade.  suffix_hit and meaning_hit   *)
(* are the results of the two loops over the morphemes.                    *)
(***************************************************************************)
Cascade_VoiceBeforeModality(exceptional_head_repnames, predicate_tag, nominative, suffix_hit, meaning_hit) ==
  IF nominative.type = "IndexError" THEN Outcome("IndexError", 1)
  ELSE IF NominativeIsNotSubject(nominative) THEN Outcome("False", 1)
  ELSE IF VoiceVerdict(predicate_tag) # "" THEN Outcome(VoiceVerdict(predicate_tag), 3)
  ELSE IF HasVolitionModality(predicate_tag) THEN Outcome("True", 2)
  ELSE IF suffix_hit THEN Outcome("False", 4)
  ELSE IF predicate_tag.fstring.yougen = "" THEN Outcome("AttributeError", 5)
  ELSE IF predicate_tag.fstring.yougen \in {"kei", "han"} THEN Outcome("False", 5)
  ELSE IF HeadRepname(predicate_tag) \in exceptional_head_repnames THEN Outcome("False", 6)
  ELSE IF meaning_hit THEN Outcome("False", 6)
  ELSE Outcome("True", 7)

Cascade(exceptional_head_repnames, predicate_tag, nominative, suffix_hit, meaning_hit) ==
  IF nominative.type = "IndexError" THEN Outcome("IndexError", 1)
  ELSE IF NominativeIsNotSubject(nominative) THEN Outcome("False", 1)
  ELSE IF HasVolitionModality(predicate_tag) THEN Outcome("True", 2)
  ELSE IF VoiceVerdict(predicate_tag) # "" THEN Outcome(VoiceVerdict(predicate_tag), 3)
  ELSE IF suffix_hit THEN Outcome("False", 4)
  \* line 174: re.search(...) is None without a <用言:...> feature
  ELSE IF predicate_tag.fstring.yougen = "" THEN Outcome("AttributeError", 5)
  ELSE IF predicate_tag.fstring.yougen \in {"kei", "han"} THEN Outcome("False", 5)
  ELSE IF HeadRepname(predicate_tag) \in exceptional_head_repnames THEN Outcome("False", 6)
  ELSE IF meaning_hit THEN Outcome("False", 6)
  ELSE Outcome("True", 7)

\* lines 79-89: the sentence and the predicate tag of a supported input
HasBList(input) == input.type \in {"str", "BList"}

PredicateTag(input) ==
  IF HasBList(input) THEN extract_predicate_tag(input.blist) ELSE input.tag

\* Ishi.__call__ as a function of the instance and the arguments
Judge(exceptional_head_repnames, input, nominative) ==
  IF input.type \notin {"str", "BList", "Tag"} THEN Outcome("RuntimeError", 0)
  \* line 226: tag_list()[-1] of a sentence without tags
  ELSE IF HasBList(input) /\ input.blist.tags = <<>> THEN Outcome("IndexError", 0)
  ELSE LET predicate_tag == PredicateTag(input) IN
       Cascade(exceptional_head_repnames, predicate_tag,
               ResolveNominative(HasBList(input), input.blist, predicate_tag, nominative),
               ScanSuffixes(reversed(predicate_tag.mrph_list)),
               ScanMeanings(reversed(predicate_tag.mrph_list)))

(***************************************************************************)
(* State.                                                                  *)
(*   handlers, level: the handler list (its length) and the level of the  *)
(*     module logger getLogger(__name__), which every instance shares      *)
(*   ishi: the classifier instance the caller holds                        *)
(*   callee: the instance that served the last call                        *)
(*   str_or_blist_or_tag, nominative_str_or_tag, result: the arguments    *)
(*     and the outcome of the last call                                    *)
(***************************************************************************)
NoOverride == [given |-> FALSE, list |-> <<>>]
Override(list) == [given |-> TRUE, list |-> list]

NoIshi == [constructed |-> FALSE, non_volition_head_repnames |-> NoOverride,
           exceptional_head_repnames |-> {}]

\* lines 54-57: a None or empty argument selects the list of the file
NewIshi(non_volition_head_repnames) ==
  [constructed |-> TRUE, non_volition_head_repnames |-> non_volition_head_repnames,
   exceptional_head_repnames |->
     IF non_volition_head_repnames.given /\ non_volition_head_repnames.list # <<>>
     THEN set(non_volition_head_repnames.list)
     ELSE set(get_non_volition_head_repnames)]

\* the process starts with a logger without handlers and level, no instance,
\* and the arguments (input, nominative) its caller is going to classify
Start(input, nominative) ==
  /\ handlers = 0
  /\ level = "NOTSET"
  /\ ishi = NoIshi
  /\ callee = NoIshi
  /\ str_or_blist_or_tag = input
  /\ nominative_str_or_tag = nominative
  /\ result = NoCall

\* Ishi.__init__, lines 38-57: ishi = Ishi(non_volition_head_repnames)
Construct(non_volition_head_repnames) ==
  /\ handlers < MaxInstances
  /\ handlers' = handlers + 1
  /\ ishi' = NewIshi(non_volition_head_repnames)
  /\ UNCHANGED <<level, callee, str_or_blist_or_tag, nominative_str_or_tag, result>>

\* Ishi.__call__, lines 59-195: ishi(input, nominative, logging_level)
Call(logging_level) ==
  /\ ishi.constructed
  /\ level' = logging_level
  /\ callee' = ishi
  /\ result' = Judge(ishi.exceptional_head_repnames, str_or_blist_or_tag, nominative_str_or_tag)
  /\ UNCHANGED <<handlers, ishi, str_or_blist_or_tag, nominative_str_or_tag>>

\* has_volition, lines 11-26: Ishi()(input, nominative, logging_level)
has_volition(logging_level) ==
  /\ handlers < MaxInstances
  /\ handlers' = handlers + 1
  /\ level' = logging_level
  /\ callee' = NewIshi(NoOverride)
  /\ result' = Judge(NewIshi(NoOverride).exceptional_head_repnames, str_or_blist_or_tag, nominative_str_or_tag)
  /\ UNCHANGED <<ishi, str_or_blist_or_tag, nominative_str_or_tag>>

(***************************************************************************)
(* Inputs: the analyses the parser can hand to the classifier.             *)
(***************************************************************************)
\* 考える, 飲める (可能動詞:飲む/のむ), 温まる (自他動詞:他:温める/あたためる)
Stems ==
  { Mrph("kangaeru", "doushi", "*", "kangaeru/kangaeru", {}),
    Mrph("nomeru", "doushi", "*", "nomeru/nomeru", {"kanou-doushi:nomu/nomu"}),
    Mrph("atatamaru", "doushi", "*", "atatamaru/atatamaru", {"jita-doushi:ta:atatameru/atatameru"}) }

\* がち, やすい, ない, しまう, おける (可能接尾辞), ます
Suffixes ==
  { Mrph("gachi", "setsubiji", "keiyoushisei-meishi-setsubiji", "gachi/gachi", {}),
    Mrph("yasui", "setsubiji", "keiyoushisei-jutsugo-setsubiji", "yasui/yasui", {}),
    Mrph("nai", "setsubiji", "keiyoushisei-jutsugo-setsubiji", "nai/nai", {}),
    Mrph("shimau", "setsubiji", "doushisei-setsubiji", "shimau/shimau", {}),
    Mrph("okeru", "setsubiji", "doushisei-setsubiji", "oku/oku", {"kanou-setsubiji"}),
    Mrph("masu", "setsubiji", "doushisei-setsubiji", "masu/masu", {}) }

\* だ (判定詞)
Others == { Mrph("da", "hanteishi", "*", "da/da", {}) }

SeqsUpTo(S, n) == UNION {[1..k -> S] : k \in 0..n}

\* a chunk has no morpheme, or a stem followed by at most MaxMrphs - 1
\* suffixes and copulas
MrphLists == {<<>>} \cup {<<stem>> \o rest : stem \in Stems, rest \in SeqsUpTo(Suffixes \cup Others, MaxMrphs - 1)}

\* the six modalities of line 115 and 認識-推量
AllModalities == {"ishi", "meirei", "iraiA", "iraiB", "hyouka:jaku", "hyouka:kyou", "ninshiki-suiryou"}

ModalitySets == {m \in SUBSET AllModalities : Cardinality(m) <= MaxModalities}

\* no voice, 使役, the five voices of line 127, and 使役&可能
AllVoices == {"", "shieki", "judou", "kanou", "judou|kanou", "shieki&judou", "shieki&judou|shieki&kanou", "shieki&kanou"}

\* 気付く/きづく is in the file of the repository, 考える/かんがえる is not
HeadRepnames == {"kiduku/kiduku", "kangaeru/kangaeru"}

Levels == {"INFO", "DEBUG"}

\* a noun chunk: no <用言:...>, no case frame, one <SM-...> marker
NounTag(sm) == Tag(FString({}, "", "", {sm}), <<Mrph("hito", "meishi", "*", "hito/hito", {})>>, "", "hito/hito", NoPas)

NounTags == {NounTag(sm) : sm \in {"shutai", "basho"}}

\* an adjective chunk: <用言:形>, no case frame
AdjectiveTag == Tag(FString({}, "", "kei", {}), <<Mrph("utsukushii", "keiyoushi", "*", "utsukushii/utsukushii", {})>>, "", "utsukushii/utsukushii", NoPas)

LightTags == NounTags \cup {AdjectiveTag}

\* the sentence id of the input sentence, and the id of another sentence
ThisSid == "S1"
OtherSid == "S2"

\* nominative arguments: outside the parse (tid -1) with a surface, or a
\* reference (sid, tid) with tid from below -MaxTags up to MaxTags
Arguments ==
  {Argument(sid, -1, midasi) : sid \in {ThisSid, OtherSid}, midasi \in {"chosha", "kare"}}
  \cup {Argument(sid, tid, "kare") : sid \in {ThisSid, OtherSid}, tid \in ((0 - MaxTags - 1)..MaxTags) \ {-1}}

\* no case frame, no nominative, one nominative, or two of which the second
\* is the author
PasOptions ==
  {NoPas, Pas(<<>>)}
  \cup {Pas(<<a>>) : a \in Arguments}
  \cup {Pas(<<a, Argument(ThisSid, -1, "chosha")>>) : a \in Arguments}

\* 考える with a case frame, with and without the modality 意志
CaseTags ==
  {Tag(FString(m, "", "dou", {}), <<Mrph("kangaeru", "doushi", "*", "kangaeru/kangaeru", {})>>, "", "kangaeru/kangaeru", pas) :
     m \in {{}, {"ishi"}}, pas \in PasOptions}

\* sentences of at most MaxTags tags of which at most one has a case frame
Sentences ==
  LET light == SeqsUpTo(LightTags, MaxTags) IN
  {BList(ThisSid, tags) : tags \in light}
  \cup {BList(ThisSid, [tags EXCEPT ![i] = t]) : tags \in light \ {<<>>}, i \in 1..MaxTags, t \in CaseTags}

FacadeInputs ==
  {InputOther}
  \cup {InputStr(b) : b \in Sentences} \cup {InputBList(b) : b \in Sentences}
  \cup {InputTag(t) : t \in CaseTags \cup LightTags}

FacadeNominatives ==
  {NominativeNone} \cup {NominativeStr(s) : s \in {"", "chosha", "kare"}}
  \cup {NominativeTag(t) : t \in NounTags}

FacadeOverrides == {NoOverride, Override(<<>>), Override(<<"kangaeru/kangaeru">>)}

\* predicate chunks for the modality and voice stages: every modality and
\* voice, with later-stage data of each kind
VoiceTags ==
  {Tag(FString(m, v, y, {}), l, "", h, NoPas) :
     m \in ModalitySets, v \in AllVoices, y \in {"", "dou", "kei"},
     l \in {ml \in MrphLists : Len(ml) = 1} \cup {<<Mrph("kangaeru", "doushi", "*", "kangaeru/kangaeru", {}), Mrph("shimau", "setsubiji", "doushisei-setsubiji", "shimau/shimau", {})>>},
     h \in HeadRepnames}

VoiceNominatives ==
  {NominativeNone} \cup {NominativeStr(s) : s \in {"chosha", "kare"}}
  \cup {NominativeTag(t) : t \in NounTags}

\* predicate chunks for the morpheme stages: every morpheme list, type and
\* combination of head repnames, no modality, and no voice or 使役&可能
MorphTags ==
  {Tag(FString({}, v, y, {}), l, hp, h, NoPas) :
     v \in {"", "shieki&kanou"}, y \in {"", "dou", "kei"}, l \in MrphLists,
     hp \in HeadRepnames \cup {""}, h \in HeadRepnames}

MorphNominatives == {NominativeNone, NominativeStr("chosha")}

(***************************************************************************)
(* Specifications.                                                         *)
(***************************************************************************)
\* the facade: every input shape, sentences with case frames, every kind of
\* nominative argument, construction with and without an override
Init == \E i \in FacadeInputs, n \in FacadeNominatives : Start(i, n)

Next ==
  \/ \E o \in FacadeOverrides : Construct(o)
  \/ \E l \in Levels : Call(l)
  \/ \E l \in Levels : has_volition(l)

Spec == Init /\ [][Next]_vars

\* the modality and voice stages on predicate chunks
InitVoice == \E t \in VoiceTags, n \in VoiceNominatives : Start(InputTag(t), n)

SpecVoice == InitVoice /\ [][Next]_vars

\* the morpheme, type and meaning stages on predicate chunks
InitMorph == \E t \in MorphTags, n \in MorphNominatives : Start(InputTag(t), n)

SpecMorph == InitMorph /\ [][Next]_vars

Called == result # NoCall

(***************************************************************************)
(* Vocabulary of the properties, written from the wording of the spec.     *)
(***************************************************************************)
\* the input is a parsed sentence with at least one chunk, or a chunk
Supported ==
  \/ str_or_blist_or_tag.type = "Tag"
  \/ str_or_blist_or_tag.type \in {"str", "BList"} /\ str_or_blist_or_tag.blist.tags # <<>>

ThePredicate == PredicateTag(str_or_blist_or_tag)

TheMrphs == ThePredicate.mrph_list

\* a nominative that stage 1 does not reject: unknown, a valid surface
\* string, or a chunk with the agentive-subject marker
AcceptedNominative(n) ==
  \/ n.type = "NoneType"
  \/ n.type = "str" /\ n.str \in {"chosha", "dokusha", "futokutei:hito"}
  \/ n.type = "Tag" /\ "shutai" \in n.tag.fstring.SM

\* the predicate has no case frame, so that the nominative judged is the
\* one the caller passed
NoCaseFrame == ~ThePredicate.pas.present

CarriesVolitionModality ==
  ThePredicate.fstring.modality \cap {"ishi", "meirei", "iraiA", "iraiB", "hyouka:jaku", "hyouka:kyou"} # {}

CarriesNonVolitionVoice ==
  ThePredicate.fstring.voice \in {"judou", "kanou", "judou|kanou", "shieki&judou", "shieki&judou|shieki&kanou"}

\* stages 1 to 3 decide nothing, said of the input
Stages1To3Silent ==
  /\ Supported /\ NoCaseFrame /\ AcceptedNominative(nominative_str_or_tag)
  /\ ~CarriesVolitionModality
  /\ ThePredicate.fstring.voice # "shieki" /\ ~CarriesNonVolitionVoice

\* a suffix morpheme that decides "no volition" at stage 4
DecidingSuffix(mrph) ==
  \/ mrph.bunrui = "keiyoushisei-meishi-setsubiji"
  \/ mrph.bunrui = "keiyoushisei-jutsugo-setsubiji" /\ mrph.repname \notin {"nai/nai", "tai/tai"}
  \/ /\ mrph.bunrui = "doushisei-setsubiji"
     /\ \/ \E label \in mrph.imis : "kanou-setsubiji" \in PatternsIn(label)
        \/ mrph.repname \in NonVolitionSuffixes

IsSuffix(mrph) == mrph.hinsi = "setsubiji"

\* the positions of the consecutive suffix morphemes at the end of the chunk
TrailingSuffixes(mrphs) ==
  {i \in 1..Len(mrphs) : \A j \in i..Len(mrphs) : IsSuffix(mrphs[j])}

\* Ishi.__call__ with both loops running over the morphemes left to right
JudgeLeftToRight(exceptional_head_repnames, input, nominative) ==
  LET predicate_tag == PredicateTag(input) IN
  Cascade(exceptional_head_repnames, predicate_tag,
          ResolveNominative(HasBList(input), input.blist, predicate_tag, nominative),
          ScanSuffixes(predicate_tag.mrph_list),
          ScanMeanings(predicate_tag.mrph_list))

\* the nominative the spec has the resolver return for a call without an
\* explicit nominative
DescribedNominative(input, predicate_tag) ==
  IF ~predicate_tag.pas.present \/ predicate_tag.pas.ga = <<>> THEN NominativeNone
  ELSE LET first == predicate_tag.pas.ga[1] IN
       IF first.tid = -1 THEN NominativeStr(first.midasi)
       ELSE IF /\ HasBList(input) /\ first.sid = input.blist.sid
               /\ first.tid >= 0 /\ first.tid < Len(input.blist.tags)
            THEN NominativeTag(input.blist.tags[first.tid + 1])
            ELSE NominativeNone

(***************************************************************************)
(* Properties.                                                             *)
(***************************************************************************)
\* C1: a call on a non-empty parsed sentence or a predicate chunk, with any
\* nominative, returns True or False and raises nothing; so it does when the
\* predicate located is a chunk without a predicate-type marker.
C1_NeverFails == Called /\ Supported => result.verdict \in {"True", "False"}

\* C2: when stage 1 does not reject the nominative and the predicate carries
\* a volition modality, the verdict is True whatever the voice, the
\* morphemes, the predicate type and the head repname are.
C2_ModalityWins ==
  Called /\ Supported /\ NoCaseFrame /\ AcceptedNominative(nominative_str_or_tag) /\ CarriesVolitionModality
    => result.verdict = "True"

\* a volition modality on a predicate with a non-volition voice and of
\* adjectival type was judged True
C2_Witness ==
  /\ Called /\ AcceptedNominative(nominative_str_or_tag)
  /\ CarriesVolitionModality /\ CarriesNonVolitionVoice /\ ThePredicate.fstring.yougen = "kei"
  /\ result.verdict = "True"

\* C3: an explicit nominative that is a string outside {著者, 読者, 不特定:人}
\* (the empty string too) or a chunk without SM-主体 is the one judged, and
\* the verdict is False whatever the case frame and the later stages say.
C3_ExplicitNominativeJudged ==
  /\ Called /\ Supported
  /\ nominative_str_or_tag.type \in {"str", "Tag"}
  /\ ~AcceptedNominative(nominative_str_or_tag)
  => result.verdict = "False"

\* C4: after construction with an override S, stage 6 rejects a head
\* repname exactly when it is in S, for every S, the empty one included.
C4_OverrideReplacesDefault ==
  /\ Called /\ callee.non_volition_head_repnames.given
  /\ result.stage >= 6
  /\ \A i \in 1..Len(TheMrphs) : ~MrphIsNonVolitionMeaning(TheMrphs[i])
  => (result.verdict = "False" <=> HeadRepname(ThePredicate) \in set(callee.non_volition_head_repnames.list))

\* C5: without an explicit nominative the first ガ argument is used: a bare
\* surface (tid -1) is judged as a string, a reference into the same
\* sentence with a valid index as that chunk, and anything else is Unknown:
\* no error, the verdict is that of stages 2 to 7.
C5_CaseFrameResolution ==
  Called /\ Supported /\ nominative_str_or_tag = NominativeNone
    => result = Cascade(callee.exceptional_head_repnames, ThePredicate,
                        DescribedNominative(str_or_blist_or_tag, ThePredicate),
                        ScanSuffixes(reversed(TheMrphs)), ScanMeanings(reversed(TheMrphs)))

\* C6: a call leaves no state behind: the handler list and the level of the
\* module logger are after the call what they were before it.
C6_NoCrossCallState ==
  [][(\E l \in Levels : Call(l) \/ has_volition(l)) => (handlers' = handlers /\ level' = level)]_vars

\* C7: when stages 1 and 2 decide nothing, the voice 使役 gives True and the
\* voices 受動, 可能, 受動|可能, 使役&受動, 使役&受動|使役&可能 give False,
\* whatever the morphemes, the predicate type and the head repname are.
C7_VoiceDecides ==
  Called /\ Supported /\ NoCaseFrame /\ AcceptedNominative(nominative_str_or_tag) /\ ~CarriesVolitionModality
    => /\ ThePredicate.fstring.voice = "shieki" => result.verdict = "True"
       /\ CarriesNonVolitionVoice => result.verdict = "False"

\* a causative-passive predicate of verbal type without any suffix was
\* judged False
C7_Witness ==
  /\ Called /\ AcceptedNominative(nominative_str_or_tag) /\ ~CarriesVolitionModality
  /\ ThePredicate.fstring.voice = "shieki&judou"
  /\ ThePredicate.fstring.yougen = "dou" /\ Len(TheMrphs) = 1
  /\ HeadRepname(ThePredicate) \notin callee.exceptional_head_repnames
  /\ result.verdict = "False"

\* C8 as stated: when stages 1 to 3 decide nothing, stage 4 yields False
\* exactly when one of the consecutive suffix morphemes at the end of the
\* chunk is a deciding suffix.
C8_TrailingSuffixesDecide ==
  Called /\ Stages1To3Silent
    => (result = Outcome("False", 4) <=> \E i \in TrailingSuffixes(TheMrphs) : DecidingSuffix(TheMrphs[i]))

\* C8 amended: when stages 1 to 3 decide nothing, stage 4 yields False
\* exactly when some morpheme of the chunk, at any position, is a deciding
\* suffix; a valid adjectival-predicate suffix decides nothing and does not
\* stop the scan, and a chunk without morphemes is a no-match.
C8_AnySuffixDecides ==
  Called /\ Stages1To3Silent
    => (result = Outcome("False", 4) <=> \E i \in 1..Len(TheMrphs) : DecidingSuffix(TheMrphs[i]))

\* stage 4 said False for a chunk that ends in a morpheme that is no suffix
\* and has a deciding suffix before it
C8_Witness ==
  /\ Called /\ Stages1To3Silent /\ result = Outcome("False", 4)
  /\ Len(TheMrphs) = 3 /\ ~IsSuffix(TheMrphs[3]) /\ DecidingSuffix(TheMrphs[2])

\* C9 as stated: for a classifier there are a predicate chunk and a
\* nominative for which the right-to-left scan and the left-to-right scan
\* give different verdicts.
C9_ScanDirectionMatters ==
  ishi.constructed =>
    \E t \in MorphTags, n \in MorphNominatives :
      Judge(ishi.exceptional_head_repnames, InputTag(t), n).verdict
        # JudgeLeftToRight(ishi.exceptional_head_repnames, InputTag(t), n).verdict

\* C9 amended: the verdict of every call is the verdict the left-to-right
\* scan of the same morphemes gives; the direction decides only which
\* morpheme the scan stops at.
C9_ScanDirectionIrrelevant ==
  Called /\ Supported
    => result.verdict = JudgeLeftToRight(callee.exceptional_head_repnames, str_or_blist_or_tag, nominative_str_or_tag).verdict

\* a call on a chunk with stacked suffixes of which the last decides nothing
\* and an earlier one decides
C9_Witness ==
  /\ Called /\ Stages1To3Silent /\ Len(TheMrphs) = 3
  /\ IsSuffix(TheMrphs[2]) /\ IsSuffix(TheMrphs[3])
  /\ DecidingSuffix(TheMrphs[2]) /\ ~DecidingSuffix(TheMrphs[3])
  /\ result.verdict = "False"

\* C10: for a verbal predicate on which stages 1 to 5 decide nothing, the
\* verdict is False exactly when the prime head repname, or the head repname
\* when there is no prime one, is in the set of the instance, or a morpheme
\* has the label 可能動詞 or 自他動詞:他; otherwise it is True.
C10_MeaningAndDefault ==
  Called /\ result.stage >= 6 /\ ThePredicate.fstring.yougen = "dou"
    => LET effective == IF ThePredicate.head_prime_repname # ""
                        THEN ThePredicate.head_prime_repname
                        ELSE ThePredicate.head_repname
           labelled == \E i \in 1..Len(TheMrphs) : \E label \in TheMrphs[i].imis :
                          PatternsIn(label) \cap {"kanou-doushi", "jita-doushi:ta"} # {}
       IN /\ result.verdict \in {"True", "False"}
          /\ result.verdict = "False" <=> (effective \in callee.exceptional_head_repnames \/ labelled)

\* the default True for a predicate whose head repname is in the set but
\* whose prime head repname is another one
C10_Witness ==
  /\ Called /\ result = Outcome("True", 7)
  /\ ThePredicate.head_prime_repname # ""
  /\ ThePredicate.head_repname \in callee.exceptional_head_repnames

====
